---- MODULE Spec2Model ----
(***************************************************************************)
(* The container that #[derive(MultiIndexMap)] generates for the element   *)
(* of multi_index_map/examples/main.rs:                                    *)
(*     Order { #[hashed_unique] order_id, #[ordered_unique] timestamp,     *)
(*             #[hashed_non_unique] trader_name, note }                    *)
(* One slab::Slab as backing storage plus one lookup table per indexed     *)
(* field, with the operations emitted by                                   *)
(* multi_index_map_derive/src/generators.rs.                               *)
(*                                                                         *)
(* A panic! of the generated code is modelled by the variable panic: the   *)
(* operation stops at the panic!, the state it leaves behind is the post   *)
(* state, and no further operation is run on that container.               *)
(***************************************************************************)
EXTENDS Integers, Sequences, FiniteSets, TLC

\* ---------------------------------------------------------------- bounds
\* Number of entries the slab may grow to: insert is offered only while it
\* would store at a slab key below MaxSlots.
MaxSlots == 3

\* Number of next() / next_back() calls made on one iterator when the two
\* are mixed.
MaxCalls == 3

\* ---------------------------------------------------------------- schema
\* The indexed fields, in declaration order (the order of #(#inserts)* etc).
Fields == <<"order_id", "timestamp", "trader_name">>

FieldSet == {Fields[i] : i \in 1..Len(Fields)}

Uniqueness(f) == IF f = "trader_name" THEN "NonUnique" ELSE "Unique"

UniqueFields == {f \in FieldSet : Uniqueness(f) = "Unique"}

NonUniqueFields == {f \in FieldSet : Uniqueness(f) = "NonUnique"}

\* The values the fields take, those of examples/main.rs.
OrderIds == {1, 2, 7}

Timestamps == {22, 77, 111}

TraderNames == {"John", "Tom"}

KeysOf(f) ==
    IF f = "order_id" THEN OrderIds
    ELSE IF f = "timestamp" THEN Timestamps
    ELSE TraderNames

\* The values of the field note, which has no index: "" as inserted and the
\* value update_by_order_id writes (examples/main.rs:81).
Notes == {"", "TestNote"}

\* The elements offered to insert.
Order == [order_id : KeysOf("order_id"), timestamp : KeysOf("timestamp"),
          trader_name : KeysOf("trader_name"), note : {""}]

\* Filler of a vacant slab entry (never read as an element).
NoElem == [order_id |-> 0, timestamp |-> 0, trader_name |-> "", note |-> ""]

\* ------------------------------------------------------------------ slab
\* slab::Slab<Order>: a vector of entries, Occupied(val) or Vacant(next free
\* key), and the head of the free list. Keys are 0-based; entries[key + 1].
Vacant(n) == [occ |-> FALSE, val |-> NoElem, nxt |-> n]

Occupied(v) == [occ |-> TRUE, val |-> v, nxt |-> 0]

slab_new == [entries |-> <<>>, next |-> 0]

slab_contains(s, key) == key < Len(s.entries) /\ s.entries[key + 1].occ

slab_keys(s) == {k \in 0..(Len(s.entries) - 1) : s.entries[k + 1].occ}

slab_len(s) == Cardinality(slab_keys(s))

slab_get(s, key) == s.entries[key + 1].val

\* Mutant: the value is put in front of the vector and the entries move up.
slab_insert_Front(s, val) ==
    [entries |-> <<Occupied(val)>> \o s.entries, next |-> s.next + 1]

\* Slab::insert: takes the head of the free list, or pushes a new entry.
slab_insert(s, val) ==
    LET key == s.next IN
    IF key = Len(s.entries)
    THEN [entries |-> Append(s.entries, Occupied(val)), next |-> key + 1]
    ELSE [entries |-> [s.entries EXCEPT ![key + 1] = Occupied(val)],
          next |-> s.entries[key + 1].nxt]

\* Slab::remove of an occupied key: the entry becomes the free list's head.
slab_remove(s, key) ==
    [entries |-> [s.entries EXCEPT ![key + 1] = Vacant(s.next)], next |-> key]

\* Writing through a &mut Order obtained from the slab.
slab_set(s, key, val) ==
    [s EXCEPT !.entries[key + 1] = Occupied(val)]

\* slab::IterMut::next from position p: the first occupied key >= p, or
\* Len(entries) when there is none. Vacant entries are skipped.
RECURSIVE iter_next(_, _)
iter_next(s, p) ==
    IF p >= Len(s.entries) THEN Len(s.entries)
    ELSE IF s.entries[p + 1].occ THEN p
    ELSE iter_next(s, p + 1)

\* Iterator::nth(n) on slab::IterMut (the default method: next() n + 1 times,
\* the first n results dropped). Returns the key found and the new position.
RECURSIVE iter_nth(_, _, _)
iter_nth(s, p, n) ==
    LET k == iter_next(s, p) IN
    IF k >= Len(s.entries) THEN [found |-> FALSE, key |-> k, pos |-> k]
    ELSE IF n = 0 THEN [found |-> TRUE, key |-> k, pos |-> k + 1]
    ELSE iter_nth(s, k + 1, n - 1)

\* --------------------------------------------------------- lookup tables
\* FxHashMap / BTreeMap as a function from the keys present.
map_new == [x \in {} |-> 0]

map_insert(m, k, v) == [x \in (DOMAIN m) \cup {k} |-> IF x = k THEN v ELSE m[x]]

map_remove(m, k) == [x \in (DOMAIN m) \ {k} |-> m[x]]

\* ------------------------------------------------------------- container
\* store, index: the fields _store and _<field>_index of the generated map.
\* panic: "none", or which panic! ended the last operation.
\* last: the last call recorded (every insert, clear, remove_by, modify_by
\*       and update_by, a shrink_to_fit that dropped entries, and whichever
\*       call panicked): its name, the kind of index it went through, the
\*       fields whose lookup table it changed, and the number of elements in
\*       the Option or Vec it returned (0 when the call panicked).
\* attr: the #[multi_index(...)] attribute of the field trader_name, fixed
\*       when the macro expands: hashed_non_unique in examples/main.rs,
\*       ordered_non_unique for the BTreeMap variant of the same table.
VARIABLES store, index, panic, last, attr

vars == <<store, index, panic, last, attr>>

\* get_ordering: the map type the attribute of field f selects.
Ordering(f) ==
    IF f = "timestamp" THEN "Ordered"
    ELSE IF f = "trader_name" /\ attr = "ordered_non_unique" THEN "Ordered"
    ELSE "Hashed"

\* The container as one value, threaded through the generated statements.
self == [store |-> store, index |-> index, panic |-> panic]

Min(S) == CHOOSE x \in S : \A y \in S : x <= y

\* -------------------------------------------------------------- capacity
\* The allocated capacity of the slab's vector and of the hash maps is not
\* part of the model: reserve changes nothing else, shrink_to_fit also
\* drops the slab's trailing vacant entries.

\* The while loop of Slab::shrink_to_fit: vacant entries are popped off the
\* end of the vector.
RECURSIVE pop_vacant(_)
pop_vacant(entries) ==
    IF entries = <<>> \/ entries[Len(entries)].occ THEN entries
    ELSE pop_vacant(SubSeq(entries, 1, Len(entries) - 1))

\* Slab::recreate_vacant_list: the free list rebuilt over the vacant
\* entries left, lower keys first.
recreate_vacant_list(entries) ==
    LET n == Len(entries)
        vac == {k \in 0..(n - 1) : ~entries[k + 1].occ}
        nxt(k) == IF \E j \in vac : j > k
                  THEN Min({j \in vac : j > k}) ELSE n
    IN [entries |-> [i \in 1..n |-> IF entries[i].occ THEN entries[i]
                                    ELSE Vacant(nxt(i - 1))],
        next |-> nxt(-1)]

\* Mutant: the occupied entries are moved down to close the gaps.
slab_shrink_to_fit_Compact(s) ==
    LET occ == SelectSeq(s.entries, LAMBDA e : e.occ)
    IN [entries |-> occ, next |-> Len(occ)]

\* Slab::shrink_to_fit
slab_shrink_to_fit(s) ==
    LET entries == pop_vacant(s.entries) IN
    IF Len(entries) # Len(s.entries) THEN recreate_vacant_list(entries) ELSE s

\* fn reserve(&mut self, additional): Slab::reserve and, for a Hashed lookup
\* table, HashMap::reserve.
reserve(c, additional) == c

\* fn shrink_to_fit(&mut self): Slab::shrink_to_fit and, for a Hashed lookup
\* table, HashMap::shrink_to_fit.
shrink_to_fit(c) == [c EXCEPT !.store = slab_shrink_to_fit(@)]

\* Mutant: the clone starts with empty lookup tables.
clone_StoreOnly(c) ==
    [store |-> c.store, index |-> [f \in FieldSet |-> [x \in {} |-> 0]],
     panic |-> c.panic]

\* #[derive(Clone)] on the generated struct: a copy of the store and of
\* every lookup table, field by field.
clone(c) ==
    [store |-> c.store, index |-> [f \in FieldSet |-> c.index[f]],
     panic |-> c.panic]

\* Mutant: the insert overwrites the entry of a key already present and goes on.
inserts_Unique_Overwrite(c, f, elem, idx) ==
    [c EXCEPT !.index[f] = map_insert(@, elem[f], idx)]

\* Mutant: the insert keeps the entry of a key already present and goes on.
inserts_Unique_KeepFirst(c, f, elem, idx) ==
    IF elem[f] \in DOMAIN c.index[f] THEN c
    ELSE [c EXCEPT !.index[f] = map_insert(@, elem[f], idx)]

\* generate_inserts, Uniqueness::Unique
inserts_Unique(c, f, elem, idx) ==
    LET orig_elem_idx_is_some == elem[f] \in DOMAIN c.index[f] IN
    [c EXCEPT !.index[f] = map_insert(@, elem[f], idx),
              !.panic = IF orig_elem_idx_is_some THEN "uniqueness" ELSE @]

\* generate_inserts, Uniqueness::NonUnique
inserts_NonUnique(c, f, elem, idx) ==
    LET m == c.index[f]
        old == IF elem[f] \in DOMAIN m THEN m[elem[f]] ELSE {}
    IN [c EXCEPT !.index[f] = map_insert(m, elem[f], old \cup {idx})]

\* #(#inserts)*: the statements of fields i.. in order; a panic! ends them.
RECURSIVE generate_inserts(_, _, _, _)
generate_inserts(c, elem, idx, i) ==
    IF i > Len(Fields) \/ c.panic # "none" THEN c
    ELSE generate_inserts(
             IF Uniqueness(Fields[i]) = "Unique"
             THEN inserts_Unique(c, Fields[i], elem, idx)
             ELSE inserts_NonUnique(c, Fields[i], elem, idx),
             elem, idx, i + 1)

\* fn insert(&mut self, elem)
insert(c, elem) ==
    LET idx == c.store.next
        c1 == [c EXCEPT !.store = slab_insert(c.store, elem)]
    IN generate_inserts(c1, elem, idx, 1)

\* Mutant: the store is cleared and the lookup tables are left as they are.
clear_StoreOnly(c) == [c EXCEPT !.store = slab_new]

\* fn len(&self)
len(c) == slab_len(c.store)

\* fn is_empty(&self)
is_empty(c) == slab_len(c.store) = 0

\* fn clear(&mut self)
clear(c) ==
    [c EXCEPT !.store = slab_new, !.index = [f \in FieldSet |-> map_new]]

\* generate_removes, Uniqueness::Unique
removes_Unique(c, f, elem_orig, idx) ==
    [c EXCEPT !.index[f] = map_remove(@, elem_orig[f])]

\* Mutant: idx is taken out of the key's set and the key is never deleted.
removes_NonUnique_KeepKey(c, f, elem_orig, idx) ==
    LET key_to_remove == elem_orig[f]
        m == c.index[f]
    IN IF key_to_remove \in DOMAIN m
       THEN [c EXCEPT !.index[f] =
                         map_insert(m, key_to_remove, m[key_to_remove] \ {idx})]
       ELSE c

\* generate_removes, Uniqueness::NonUnique
removes_NonUnique(c, f, elem_orig, idx) ==
    LET key_to_remove == elem_orig[f]
        m == c.index[f]
    IN IF key_to_remove \in DOMAIN m
       THEN LET elems == m[key_to_remove] IN
            IF Cardinality(elems) > 1
            THEN IF idx \in elems
                 THEN [c EXCEPT !.index[f] =
                                   map_insert(m, key_to_remove, elems \ {idx})]
                 ELSE [c EXCEPT !.panic = "invariant"]
            ELSE [c EXCEPT !.index[f] = map_remove(m, key_to_remove)]
       ELSE c

\* #(#removes)*
RECURSIVE generate_removes(_, _, _, _)
generate_removes(c, elem_orig, idx, i) ==
    IF i > Len(Fields) \/ c.panic # "none" THEN c
    ELSE generate_removes(
             IF Uniqueness(Fields[i]) = "Unique"
             THEN removes_Unique(c, Fields[i], elem_orig, idx)
             ELSE removes_NonUnique(c, Fields[i], elem_orig, idx),
             elem_orig, idx, i + 1)

\* The body shared by both removers for one idx: self._store.remove(idx)
\* (Slab::remove panics on a vacant key), then #(#removes)*.
remove_idx(c, idx) ==
    IF ~slab_contains(c.store, idx) THEN [c EXCEPT !.panic = "slab"]
    ELSE generate_removes([c EXCEPT !.store = slab_remove(c.store, idx)],
                          slab_get(c.store, idx), idx, 1)

\* Mutant: the remover unwraps the lookup instead of returning None.
remover_Unique_Unwrap(c, f, key) ==
    IF key \notin DOMAIN c.index[f] THEN [c EXCEPT !.panic = "invariant"]
    ELSE remove_idx([c EXCEPT !.index[f] = map_remove(@, key)], c.index[f][key])

\* fn remove_by_<field>, Uniqueness::Unique
remover_Unique(c, f, key) ==
    IF key \notin DOMAIN c.index[f] THEN c
    ELSE remove_idx([c EXCEPT !.index[f] = map_remove(@, key)], c.index[f][key])

\* The for loop of the NonUnique remover over the BTreeSet idxs, ascending.
RECURSIVE remover_loop(_, _)
remover_loop(c, idxs) ==
    IF idxs = {} \/ c.panic # "none" THEN c
    ELSE remover_loop(remove_idx(c, Min(idxs)), idxs \ {Min(idxs)})

\* fn remove_by_<field>, Uniqueness::NonUnique
remover_NonUnique(c, f, key) ==
    IF key \notin DOMAIN c.index[f] THEN c
    ELSE remover_loop([c EXCEPT !.index[f] = map_remove(@, key)], c.index[f][key])

\* The elements stored at the slab keys idxs, in ascending order of key.
RECURSIVE elems_at(_, _)
elems_at(c, idxs) ==
    IF idxs = {} THEN <<>>
    ELSE <<slab_get(c.store, Min(idxs))>> \o elems_at(c, idxs \ {Min(idxs)})

\* The mutating closure handed to modify_by_<field>: it assigns the fields
\* in DOMAIN mut and leaves the others alone.
apply(mut, elem) ==
    [f \in DOMAIN elem |-> IF f \in DOMAIN mut THEN mut[f] ELSE elem[f]]

\* Mutant: the new key's entry is overwritten without the panic!.
modifies_Unique_NoPanic(c, f, elem, elem_orig, idx) ==
    IF elem[f] # elem_orig[f] /\ elem_orig[f] \in DOMAIN c.index[f]
    THEN LET m == c.index[f] IN
         [c EXCEPT !.index[f] =
                      map_insert(map_remove(m, elem_orig[f]), elem[f], m[elem_orig[f]])]
    ELSE c

\* Mutant: the old key is left in the lookup table.
modifies_Unique_KeepOld(c, f, elem, elem_orig, idx) ==
    IF elem[f] # elem_orig[f] /\ elem_orig[f] \in DOMAIN c.index[f]
    THEN LET m == c.index[f] IN
         [c EXCEPT !.index[f] = map_insert(m, elem[f], m[elem_orig[f]]),
                   !.panic = IF elem[f] \in DOMAIN m THEN "uniqueness" ELSE @]
    ELSE c

\* generate_modifies, Uniqueness::Unique
modifies_Unique(c, f, elem, elem_orig, idx) ==
    IF elem[f] # elem_orig[f]
    THEN LET m == c.index[f] IN
         IF elem_orig[f] \notin DOMAIN m THEN [c EXCEPT !.panic = "invariant"]
         ELSE LET idx_removed == m[elem_orig[f]]
                  m1 == map_remove(m, elem_orig[f])
                  orig_elem_idx_is_some == elem[f] \in DOMAIN m1
              IN [c EXCEPT !.index[f] = map_insert(m1, elem[f], idx_removed),
                           !.panic = IF orig_elem_idx_is_some
                                     THEN "uniqueness" ELSE @]
    ELSE c

\* generate_modifies, Uniqueness::NonUnique
modifies_NonUnique(c, f, elem, elem_orig, idx) ==
    IF elem[f] # elem_orig[f]
    THEN LET m == c.index[f] IN
         IF elem_orig[f] \notin DOMAIN m THEN [c EXCEPT !.panic = "invariant"]
         ELSE LET idxs == m[elem_orig[f]] IN
              IF Cardinality(idxs) > 1 /\ idx \notin idxs
              THEN [c EXCEPT !.panic = "invariant"]
              ELSE LET m1 == IF Cardinality(idxs) > 1
                             THEN map_insert(m, elem_orig[f], idxs \ {idx})
                             ELSE map_remove(m, elem_orig[f])
                       old == IF elem[f] \in DOMAIN m1 THEN m1[elem[f]] ELSE {}
                   IN [c EXCEPT !.index[f] = map_insert(m1, elem[f], old \cup {idx})]
    ELSE c

\* #(#modifies)*
RECURSIVE generate_modifies(_, _, _, _, _)
generate_modifies(c, elem, elem_orig, idx, i) ==
    IF i > Len(Fields) \/ c.panic # "none" THEN c
    ELSE generate_modifies(
             IF Uniqueness(Fields[i]) = "Unique"
             THEN modifies_Unique(c, Fields[i], elem, elem_orig, idx)
             ELSE modifies_NonUnique(c, Fields[i], elem, elem_orig, idx),
             elem, elem_orig, idx, i + 1)

\* elem_orig = elem.clone(); f(elem); #(#modifies)* for the element stored
\* at slab key at, with idx the position the lookup table gave.
modify_elem(c, at, idx, mut) ==
    LET elem_orig == slab_get(c.store, at)
        elem == apply(mut, elem_orig)
    IN generate_modifies([c EXCEPT !.store = slab_set(c.store, at, elem)],
                         elem, elem_orig, idx, 1)

\* fn modify_by_<field>, Uniqueness::Unique
modifier_Unique(c, f, key, mut) ==
    IF key \notin DOMAIN c.index[f] THEN c
    ELSE LET idx == c.index[f][key] IN
         IF ~slab_contains(c.store, idx) THEN [c EXCEPT !.panic = "slab"]
         ELSE modify_elem(c, idx, idx, mut)

\* The for loop of the NonUnique modifier: idxs ascending, mut_iter at
\* position pos of the slab, last_idx as in the source.
RECURSIVE modifier_loop(_, _, _, _, _)
modifier_loop(c, idxs, pos, last_idx, mut) ==
    IF idxs = {} \/ c.panic # "none" THEN c
    ELSE LET idx == Min(idxs)
             nth == iter_nth(c.store, pos, idx - last_idx)
         IN IF nth.found
            THEN modifier_loop(modify_elem(c, nth.key, idx, mut),
                               idxs \ {idx}, nth.pos, idx + 1, mut)
            ELSE [c EXCEPT !.panic = "mut_ref"]

\* fn modify_by_<field>, Uniqueness::NonUnique
modifier_NonUnique(c, f, key, mut) ==
    LET idxs == IF key \in DOMAIN c.index[f] THEN c.index[f][key] ELSE {}
    IN modifier_loop(c, idxs, 0, 0, mut)

\* fn get_by_<field>, Uniqueness::Unique: indexing the slab with a vacant
\* key panics. The Option is a sequence of length at most one.
getter_Unique(c, f, key) ==
    IF key \notin DOMAIN c.index[f] THEN c
    ELSE IF slab_contains(c.store, c.index[f][key]) THEN c
    ELSE [c EXCEPT !.panic = "slab"]

\* fn get_by_<field>, Uniqueness::NonUnique
getter_NonUnique(c, f, key) ==
    IF key \notin DOMAIN c.index[f] THEN c
    ELSE IF \A idx \in c.index[f][key] : slab_contains(c.store, idx) THEN c
    ELSE [c EXCEPT !.panic = "slab"]

\* The elements get_by_<field> returns, as a sequence (for a non-unique index
\* in the BTreeSet's ascending order of idx); nothing when it panics.
get_by(c, f, key) ==
    IF key \notin DOMAIN c.index[f] THEN <<>>
    ELSE IF Uniqueness(f) = "Unique"
    THEN IF getter_Unique(c, f, key).panic # "none" THEN <<>>
         ELSE <<slab_get(c.store, c.index[f][key])>>
    ELSE IF getter_NonUnique(c, f, key).panic # "none" THEN <<>>
         ELSE elems_at(c, c.index[f][key])

\* fn get_mut_by_<field>, Uniqueness::Unique
mut_getter_Unique(c, f, key) ==
    IF key \notin DOMAIN c.index[f] THEN c
    ELSE IF slab_contains(c.store, c.index[f][key]) THEN c
    ELSE [c EXCEPT !.panic = "slab"]

\* The for loop of the NonUnique mut_getter: idxs ascending, mut_iter at
\* position pos of the slab. The slab keys of the references pushed, and
\* whether mut_iter.nth yielded Some for every idx.
RECURSIVE mut_getter_loop(_, _, _, _)
mut_getter_loop(s, idxs, pos, last_idx) ==
    IF idxs = {} THEN [refs |-> <<>>, ok |-> TRUE]
    ELSE LET idx == Min(idxs)
             nth == iter_nth(s, pos, idx - last_idx)
         IN IF nth.found
            THEN LET rest == mut_getter_loop(s, idxs \ {idx}, nth.pos, idx + 1)
                 IN [refs |-> <<nth.key>> \o rest.refs, ok |-> rest.ok]
            ELSE [refs |-> <<>>, ok |-> FALSE]

\* fn get_mut_by_<field>, Uniqueness::NonUnique
mut_getter_NonUnique(c, f, key) ==
    IF key \notin DOMAIN c.index[f] THEN c
    ELSE IF mut_getter_loop(c.store, c.index[f][key], 0, 0).ok THEN c
    ELSE [c EXCEPT !.panic = "mut_ref"]

\* The elements get_mut_by_<field> gives mutable access to, as a sequence in
\* the order of the Vec; nothing when it panics.
get_mut_by(c, f, key) ==
    IF key \notin DOMAIN c.index[f] THEN <<>>
    ELSE IF Uniqueness(f) = "Unique"
    THEN IF mut_getter_Unique(c, f, key).panic # "none" THEN <<>>
         ELSE <<slab_get(c.store, c.index[f][key])>>
    ELSE IF mut_getter_NonUnique(c, f, key).panic # "none" THEN <<>>
         ELSE LET refs == mut_getter_loop(c.store, c.index[f][key], 0, 0).refs
              IN [i \in 1..Len(refs) |-> slab_get(c.store, refs[i])]

\* The members of a set of numbers in ascending order (BTreeSet / BTreeMap
\* iteration order).
RECURSIVE ascending(_)
ascending(S) ==
    IF S = {} THEN <<>> ELSE <<Min(S)>> \o ascending(S \ {Min(S)})

\* The trader names in the order of String's Ord.
NameOrder == <<"John", "Tom">>

\* The keys of field f's lookup table in ascending order of the key type.
ascending_keys(f, keys) ==
    IF f = "trader_name" THEN SelectSeq(NameOrder, LAMBDA n : n \in keys)
    ELSE ascending(keys)

Reverse(seq) == [i \in 1..Len(seq) |-> seq[Len(seq) + 1 - i]]

\* Mutant: every lookup table iterates in any order, as a hash map does.
IterOrders_AnyOrder(c, f) ==
    LET keys == DOMAIN c.index[f]
        n == Cardinality(keys)
    IN {o \in [1..n -> keys] : \A i, j \in 1..n : i # j => o[i] # o[j]}

\* The orders in which field f's lookup table may iterate over its keys:
\* ascending for a BTreeMap, any order for a FxHashMap.
IterOrders(c, f) ==
    LET keys == DOMAIN c.index[f]
        n == Cardinality(keys)
    IN IF Ordering(f) = "Ordered" THEN {ascending_keys(f, keys)}
       ELSE {o \in [1..n -> keys] : \A i, j \in 1..n : i # j => o[i] # o[j]}

\* iterator_def: the iterator iter_by_<field> returns, the lookup table
\* iterating in order. _iter and _iter_rev hold the keys not yet taken;
\* _iter_rev (the reversed iterator) exists for an Ordered index only.
iter_by(c, f, order) ==
    [f |-> f, _iter |-> order,
     _iter_rev |-> IF Ordering(f) = "Ordered" THEN Reverse(order) ELSE <<>>,
     _inner_iter |-> [some |-> FALSE, idxs |-> <<>>]]

\* &self._store_ref[idx] as the item of a next / next_back call on iterator
\* it: indexing the slab with a vacant key panics.
iter_item(c, it, idx) ==
    IF slab_contains(c.store, idx)
    THEN [it |-> it, item |-> <<slab_get(c.store, idx)>>, panic |-> "none"]
    ELSE [it |-> it, item |-> <<>>, panic |-> "slab"]

iter_none(it) == [it |-> it, item |-> <<>>, panic |-> "none"]

\* iter_action: fn next(&mut self). The item is <<>> for None.
iterator_next(c, it) ==
    IF Uniqueness(it.f) = "Unique"
    THEN IF it._iter = <<>> THEN iter_none(it)
         ELSE iter_item(c, [it EXCEPT !._iter = Tail(@)],
                        c.index[it.f][Head(it._iter)])
    ELSE IF it._inner_iter.some /\ it._inner_iter.idxs # <<>>
    THEN iter_item(c, [it EXCEPT !._inner_iter.idxs = Tail(@)],
                   Head(it._inner_iter.idxs))
    ELSE IF it._iter = <<>> THEN iter_none(it)
    ELSE LET hashmap_next == ascending(c.index[it.f][Head(it._iter)])
             it1 == [it EXCEPT !._iter = Tail(@)]
         IN IF hashmap_next = <<>>
            THEN [it |-> [it1 EXCEPT !._inner_iter =
                                        [some |-> TRUE, idxs |-> <<>>]],
                  item |-> <<>>, panic |-> "invariant"]
            ELSE iter_item(c,
                           [it1 EXCEPT !._inner_iter =
                                  [some |-> TRUE, idxs |-> Tail(hashmap_next)]],
                           Head(hashmap_next))

Front(seq) == SubSeq(seq, 1, Len(seq) - 1)

Last(seq) == seq[Len(seq)]

\* Mutant: next_back takes the slab keys of one key from the front of the set.
iterator_next_back_InnerForward(c, it) ==
    IF Uniqueness(it.f) = "Unique"
    THEN IF it._iter_rev = <<>> THEN iter_none(it)
         ELSE iter_item(c, [it EXCEPT !._iter_rev = Tail(@)],
                        c.index[it.f][Head(it._iter_rev)])
    ELSE IF it._inner_iter.some /\ it._inner_iter.idxs # <<>>
    THEN iter_item(c, [it EXCEPT !._inner_iter.idxs = Tail(@)],
                   Head(it._inner_iter.idxs))
    ELSE IF it._iter_rev = <<>> THEN iter_none(it)
    ELSE LET hashmap_back == ascending(c.index[it.f][Head(it._iter_rev)])
             it1 == [it EXCEPT !._iter_rev = Tail(@)]
         IN IF hashmap_back = <<>>
            THEN [it |-> [it1 EXCEPT !._inner_iter =
                                        [some |-> TRUE, idxs |-> <<>>]],
                  item |-> <<>>, panic |-> "invariant"]
            ELSE iter_item(c,
                           [it1 EXCEPT !._inner_iter =
                                  [some |-> TRUE, idxs |-> Tail(hashmap_back)]],
                           Head(hashmap_back))

\* rev_iter_action: fn next_back(&mut self), of an Ordered index.
iterator_next_back(c, it) ==
    IF Uniqueness(it.f) = "Unique"
    THEN IF it._iter_rev = <<>> THEN iter_none(it)
         ELSE iter_item(c, [it EXCEPT !._iter_rev = Tail(@)],
                        c.index[it.f][Head(it._iter_rev)])
    ELSE IF it._inner_iter.some /\ it._inner_iter.idxs # <<>>
    THEN iter_item(c, [it EXCEPT !._inner_iter.idxs = Front(@)],
                   Last(it._inner_iter.idxs))
    ELSE IF it._iter_rev = <<>> THEN iter_none(it)
    ELSE LET hashmap_back == ascending(c.index[it.f][Head(it._iter_rev)])
             it1 == [it EXCEPT !._iter_rev = Tail(@)]
         IN IF hashmap_back = <<>>
            THEN [it |-> [it1 EXCEPT !._inner_iter =
                                        [some |-> TRUE, idxs |-> <<>>]],
                  item |-> <<>>, panic |-> "invariant"]
            ELSE iter_item(c,
                           [it1 EXCEPT !._inner_iter =
                                  [some |-> TRUE, idxs |-> Front(hashmap_back)]],
                           Last(hashmap_back))

\* One call of next (dir = "next") or next_back (dir = "next_back").
iterator_call(c, it, dir) ==
    IF dir = "next" THEN iterator_next(c, it) ELSE iterator_next_back(c, it)

\* The items of successive calls in direction dir on iterator it until one
\* returns None or panics (a for loop over the iterator or over its .rev()),
\* each item with the iterator as that call left it.
RECURSIVE iterator_calls(_, _, _)
iterator_calls(c, it, dir) ==
    LET r == iterator_call(c, it, dir) IN
    IF r.panic # "none" \/ r.item = <<>> THEN <<r>>
    ELSE <<r>> \o iterator_calls(c, r.it, dir)

\* The elements such a loop yields, in order.
collect(c, it, dir) ==
    LET calls == iterator_calls(c, it, dir)
    IN [i \in 1..(Len(calls) - 1) |-> calls[i].item[1]]

\* The container after such a loop: unchanged, or panicked.
iterate(c, it, dir) ==
    LET calls == iterator_calls(c, it, dir)
    IN [c EXCEPT !.panic = calls[Len(calls)].panic]

\* remove_by_<f>(key) on container c: the container it leaves.
remove_by(c, f, key) ==
    IF Uniqueness(f) = "Unique" THEN remover_Unique(c, f, key)
    ELSE remover_NonUnique(c, f, key)

\* modify_by_<f>(key, mut) on container c: the container it leaves.
modify_by(c, f, key, mut) ==
    IF Uniqueness(f) = "Unique" THEN modifier_Unique(c, f, key, mut)
    ELSE modifier_NonUnique(c, f, key, mut)

\* The Option / Vec of elements remove_by_<field> returns: elem_orig of each
\* idx, in the order of the loop.
remover_elems(c, f, key) ==
    IF key \notin DOMAIN c.index[f] THEN <<>>
    ELSE IF Uniqueness(f) = "Unique" THEN elems_at(c, {c.index[f][key]})
    ELSE elems_at(c, c.index[f][key])

\* The slab keys whose elements the NonUnique modifier's loop visits: what
\* mut_iter.nth(idx - last_idx) yields for each idx, until it yields None.
RECURSIVE modifier_visits(_, _, _, _)
modifier_visits(s, idxs, pos, last_idx) ==
    IF idxs = {} THEN <<>>
    ELSE LET idx == Min(idxs)
             nth == iter_nth(s, pos, idx - last_idx)
         IN IF nth.found
            THEN <<nth.key>> \o modifier_visits(s, idxs \ {idx}, nth.pos, idx + 1)
            ELSE <<>>

\* The Option / Vec of references modify_by_<field>(key, ..) returns, read in
\* the container after that the call leaves: Some(elem), or refs in the order
\* they were pushed.
modifier_refs(c, after, f, key) ==
    IF key \notin DOMAIN c.index[f] THEN <<>>
    ELSE IF Uniqueness(f) = "Unique" THEN elems_at(after, {c.index[f][key]})
    ELSE LET visits == modifier_visits(c.store, c.index[f][key], 0, 0)
         IN [i \in 1..Len(visits) |-> slab_get(after.store, visits[i])]

\* update_by_<field>(key, f) as it is called in examples/main.rs:79: the
\* closure is handed the non-indexed field note alone and assigns it. The
\* lookup is that of modify_by_<field>, each element found is addressed by
\* its slab key, and no lookup table is touched.

\* Mutant: the element's entries are taken out of the lookup tables.
update_elem_Unindex(c, idx, note) ==
    IF ~slab_contains(c.store, idx) THEN [c EXCEPT !.panic = "slab"]
    ELSE generate_removes(
             [c EXCEPT !.store =
                  slab_set(@, idx, [slab_get(c.store, idx) EXCEPT !.note = note])],
             slab_get(c.store, idx), idx, 1)

\* The closure applied to the element at slab key idx.
update_elem(c, idx, note) ==
    IF ~slab_contains(c.store, idx) THEN [c EXCEPT !.panic = "slab"]
    ELSE [c EXCEPT !.store =
              slab_set(@, idx, [slab_get(c.store, idx) EXCEPT !.note = note])]


RECURSIVE update_loop(_, _, _)
update_loop(c, idxs, note) ==
    IF idxs = {} \/ c.panic # "none" THEN c
    ELSE update_loop(update_elem(c, Min(idxs), note), idxs \ {Min(idxs)}, note)

\* The slab keys field f's lookup table of container c records under key.
lookup(c, f, key) ==
    IF key \notin DOMAIN c.index[f] THEN {}
    ELSE IF Uniqueness(f) = "Unique" THEN {c.index[f][key]}
    ELSE c.index[f][key]

update_by(c, f, key, note) == update_loop(c, lookup(c, f, key), note)

\* The references update_by hands back: the elements updated.
updater_refs(c, after, f, key) ==
    IF after.panic # "none" THEN <<>> ELSE elems_at(after, lookup(c, f, key))

\* The closures offered to modify_by_<field>: every assignment of constants
\* to one indexed field, and to all of them at once (examples/main.rs:68).
Mutators ==
    UNION {{f :> v : v \in KeysOf(f)} : f \in FieldSet}
    \cup {[order_id |-> 7, timestamp |-> 77, trader_name |-> n] :
             n \in TraderNames}

\* ---------------------------------------------------------------- actions
\* The container c an operation leaves becomes the state, and last records
\* the call that returned ret.
Commit(c, op, via, ret) ==
    \E after \in {c} :
        /\ store' = after.store
        /\ index' = after.index
        /\ panic' = after.panic
        /\ attr' = attr
        /\ last' = [op |-> op, via |-> via,
                    reindexed |-> {f \in FieldSet : after.index[f] # index[f]},
                    len |-> IF after.panic = "none" THEN Len(ret) ELSE 0]

Init ==
    /\ store = slab_new
    /\ index = [f \in FieldSet |-> map_new]
    /\ panic = "none"
    /\ last = [op |-> "new", via |-> "", reindexed |-> {}, len |-> 0]
    /\ attr = "hashed_non_unique"

\* The effect of one call insert(elem).
InsertElem(elem) == Commit(insert(self, elem), "insert", "", <<elem>>)

Insert ==
    /\ panic = "none"
    /\ store.next < MaxSlots
    /\ \E elem \in Order : InsertElem(elem)

Clear ==
    /\ panic = "none"
    /\ Commit(clear(self), "clear", "", <<>>)

\* The effect of one call remove_by_<f>(key).
RemoveBy(f, key) ==
    Commit(remove_by(self, f, key), "remove_by", Uniqueness(f),
           remover_elems(self, f, key))

RemoveByUnique ==
    /\ panic = "none"
    /\ \E f \in UniqueFields : \E key \in KeysOf(f) : RemoveBy(f, key)

RemoveByNonUnique ==
    /\ panic = "none"
    /\ \E f \in NonUniqueFields : \E key \in KeysOf(f) : RemoveBy(f, key)

\* The effect of one call modify_by_<f>(key, mut).
ModifyBy(f, key, mut) ==
    \E after \in {modify_by(self, f, key, mut)} :
        Commit(after, "modify_by", Uniqueness(f),
               modifier_refs(self, after, f, key))

ModifyByUnique ==
    /\ panic = "none"
    /\ \E f \in UniqueFields : \E key \in KeysOf(f) : \E mut \in Mutators :
           ModifyBy(f, key, mut)

ModifyByNonUnique ==
    /\ panic = "none"
    /\ \E f \in NonUniqueFields : \E key \in KeysOf(f) : \E mut \in Mutators :
           ModifyBy(f, key, mut)

\* An accessor that changes neither the store nor a lookup table (get_by,
\* get_mut_by, iter_by): the call leaves no trace unless it panics.
Observe(c, op, via) ==
    IF c.panic = "none" THEN UNCHANGED vars ELSE Commit(c, op, via, <<>>)

GetByUnique ==
    /\ panic = "none"
    /\ \E f \in UniqueFields : \E key \in KeysOf(f) :
           Observe(getter_Unique(self, f, key), "get_by", "Unique")

GetByNonUnique ==
    /\ panic = "none"
    /\ \E f \in NonUniqueFields : \E key \in KeysOf(f) :
           Observe(getter_NonUnique(self, f, key), "get_by", "NonUnique")

GetMutByUnique ==
    /\ panic = "none"
    /\ \E f \in UniqueFields : \E key \in KeysOf(f) :
           Observe(mut_getter_Unique(self, f, key), "get_mut_by", "Unique")

GetMutByNonUnique ==
    /\ panic = "none"
    /\ \E f \in NonUniqueFields : \E key \in KeysOf(f) :
           Observe(mut_getter_NonUnique(self, f, key), "get_mut_by", "NonUnique")

\* The directions an iterator of field f can be driven in: HashMap's
\* iterator is not double-ended.
Directions(f) ==
    IF Ordering(f) = "Ordered" THEN {"next", "next_back"} ELSE {"next"}

\* iter_by_<field>() and a loop over the iterator to its end.
IterBy ==
    /\ panic = "none"
    /\ \E f \in FieldSet : \E order \in IterOrders(self, f) :
       \E dir \in Directions(f) :
           Observe(iterate(self, iter_by(self, f, order), dir),
                   "iter_by", Uniqueness(f))

\* reserve(additional): nothing of the container's content changes.
Reserve ==
    /\ panic = "none"
    /\ \E additional \in 0..MaxSlots :
           Observe(reserve(self, additional), "reserve", "")

\* shrink_to_fit(), recorded when it dropped entries of the slab.
ShrinkToFit ==
    /\ panic = "none"
    /\ \E after \in {shrink_to_fit(self)} :
           IF after = self THEN UNCHANGED vars
           ELSE Commit(after, "shrink_to_fit", "", <<>>)

\* let mut new_map = map.clone(); new_map.remove_by_<f>(key), as in
\* tests/clone_derive.rs: the call works on the copy, map stays as it is.
CloneRemoveBy ==
    /\ panic = "none"
    /\ \E f \in FieldSet : \E key \in KeysOf(f) :
           Observe(remove_by(clone(self), f, key), "clone", Uniqueness(f))

Next ==
    \/ Insert
    \/ Clear
    \/ RemoveByUnique
    \/ RemoveByNonUnique
    \/ ModifyByUnique
    \/ ModifyByNonUnique
    \/ GetByUnique
    \/ GetByNonUnique
    \/ GetMutByUnique
    \/ GetMutByNonUnique
    \/ IterBy
    \/ Reserve
    \/ ShrinkToFit
    \/ CloneRemoveBy

Spec == Init /\ [][Next]_vars

\* The same container with trader_name declared ordered_non_unique.
InitOrdered ==
    /\ store = slab_new
    /\ index = [f \in FieldSet |-> map_new]
    /\ panic = "none"
    /\ last = [op |-> "new", via |-> "", reindexed |-> {}, len |-> 0]
    /\ attr = "ordered_non_unique"

SpecOrdered == InitOrdered /\ [][Next]_vars

\* The effect of one call update_by_<f>(key, |note| *note = n).
UpdateBy(f, key, note) ==
    \E after \in {update_by(self, f, key, note)} :
        Commit(after, "update_by", Uniqueness(f),
               updater_refs(self, after, f, key))

UpdateByUnique ==
    /\ panic = "none"
    /\ \E f \in UniqueFields : \E key \in KeysOf(f) : \E note \in Notes :
           UpdateBy(f, key, note)

UpdateByNonUnique ==
    /\ panic = "none"
    /\ \E f \in NonUniqueFields : \E key \in KeysOf(f) : \E note \in Notes :
           UpdateBy(f, key, note)

\* The container driven by inserts, removals, updates and traversals.
NextUpdate ==
    \/ Insert
    \/ Clear
    \/ RemoveByUnique
    \/ RemoveByNonUnique
    \/ UpdateByUnique
    \/ UpdateByNonUnique
    \/ IterBy

SpecUpdate == Init /\ [][NextUpdate]_vars

\* ------------------------------------------------------------ properties
\* The slab keys a lookup table records under key k.
idxs_at(f, k) ==
    IF Uniqueness(f) = "Unique" THEN {index[f][k]} ELSE index[f][k]

\* The keys of field f's lookup table under which slab key s is recorded.
keys_of_idx(f, s) == {k \in DOMAIN index[f] : s \in idxs_at(f, k)}

Returned == panic = "none"

\* The container an operation leaves behind.
self_after == [store |-> store', index |-> index', panic |-> panic']

\* get_by_<f>(key) of the current container returns the element e.
Gets(f, key, e) ==
    LET got == get_by(self, f, key) IN \E i \in 1..Len(got) : got[i] = e

\* The element stored at slab key s is returned by get_by on every indexed
\* field with the element's own value of that field.
Retrievable(s) ==
    \A f \in FieldSet : Gets(f, slab_get(store, s)[f], slab_get(store, s))

\* C1 (I1): after operations that returned, every occupied slab key is
\* recorded in every lookup table under exactly one key.
I1_EverySlotOnceInEveryIndex ==
    Returned =>
        \A s \in slab_keys(store) : \A f \in FieldSet :
            Cardinality(keys_of_idx(f, s)) = 1

\* C2 (I4): every slab key recorded in a lookup table is occupied.
I4_NoDanglingIdx ==
    Returned =>
        \A f \in FieldSet : \A k \in DOMAIN index[f] :
            idxs_at(f, k) \subseteq slab_keys(store)

\* C3 (I2): no two stored elements share the value of a unique field.
I2_UniqueKeysDistinct ==
    Returned =>
        \A f \in UniqueFields : \A s, t \in slab_keys(store) :
            s # t => slab_get(store, s)[f] # slab_get(store, t)[f]

\* Three elements are stored after a modify_by that returned.
I2_Witness ==
    /\ Returned
    /\ last.op = "modify_by"
    /\ slab_len(store) = 3

\* C4 (I3): every key present in a non-unique lookup table has a non-empty
\* set of slab keys, also in the state a panic! leaves behind.
I3_NoEmptySet ==
    \A f \in NonUniqueFields : \A k \in DOMAIN index[f] : index[f][k] # {}

\* After remove_by or modify_by a non-unique table holds one key and lacks
\* another, while elements are stored.
I3_Witness ==
    /\ Returned
    /\ last.op \in {"remove_by", "modify_by"}
    /\ slab_len(store) > 0
    /\ \E f \in NonUniqueFields :
           /\ DOMAIN index[f] # {}
           /\ KeysOf(f) \ DOMAIN index[f] # {}

\* C5 (round trip), step by step: an element that insert just stored is
\* retrievable by all its keys, and an element that was retrievable and is
\* left in place unchanged by an operation that returned is still retrievable.
RoundTrip ==
    [][Returned' =>
          \A s \in slab_keys(store') :
              (\/ ~slab_contains(store, s)
               \/ slab_get(store', s) = slab_get(store, s) /\ Retrievable(s))
              => Retrievable(s)']_vars

\* C6: an insert that stores an element whose value of a unique field is
\* that of an element already stored ends in the uniqueness panic!; an insert
\* that returns leaves every entry of every unique lookup table as it was.
InsertDuplicatePanics ==
    [][\A s \in slab_keys(store') : ~slab_contains(store, s) =>
          /\ (\E t \in slab_keys(store) : \E f \in UniqueFields :
                  slab_get(store, t)[f] = slab_get(store', s)[f])
             => panic' = "uniqueness"
          /\ Returned' =>
                \A f \in UniqueFields : \A k \in DOMAIN index[f] :
                    k \in DOMAIN index'[f] /\ index'[f][k] = index[f][k]]_vars

\* An insert ended in the uniqueness panic!.
InsertDuplicate_Witness ==
    /\ last.op = "insert"
    /\ panic = "uniqueness"

\* C7: an insert that fails leaves the store and every lookup table as they
\* were before the call.
FailedInsertChangesNothing ==
    [][(last'.op = "insert" /\ panic' # "none") =>
          (store' = store /\ index' = index)]_vars

\* C8: a modify_by in which an element's unique field is changed to a value
\* that another stored element holds ends in the uniqueness panic!.
ModifyDuplicatePanics ==
    [][last'.op = "modify_by" =>
          \A s \in slab_keys(store) : \A f \in UniqueFields :
              (/\ slab_get(store', s)[f] # slab_get(store, s)[f]
               /\ \E t \in slab_keys(store') \ {s} :
                      slab_get(store', t)[f] = slab_get(store', s)[f])
              => panic' = "uniqueness"]_vars

\* A modify_by through the non-unique index ended in the uniqueness panic!
\* with two stored elements holding the same unique key.
ModifyDuplicate_Witness ==
    /\ last.op = "modify_by"
    /\ last.via = "NonUnique"
    /\ panic = "uniqueness"
    /\ \E s, t \in slab_keys(store) :
           /\ s # t
           /\ slab_get(store, s).order_id = slab_get(store, t).order_id
           /\ slab_get(store, s).trader_name = slab_get(store, t).trader_name

\* C9: a modify_by that fails on a uniqueness violation leaves the store and
\* every lookup table as they were before the call.
FailedModifyChangesNothing ==
    [][(last'.op = "modify_by" /\ panic' = "uniqueness") =>
          (store' = store /\ index' = index)]_vars

\* C10: after a modify_by that returned, an element whose unique field went
\* from A to B is what get_by(B) returns, and get_by(A) returns nothing.
ReindexCorrect ==
    [][(last'.op = "modify_by" /\ Returned') =>
          \A s \in slab_keys(store) : \A f \in UniqueFields :
              slab_get(store', s)[f] # slab_get(store, s)[f] =>
                  /\ get_by(self_after, f, slab_get(store', s)[f])
                        = <<slab_get(store', s)>>
                  /\ get_by(self_after, f, slab_get(store, s)[f]) = <<>>]_vars

\* A modify_by returned that changed the lookup tables of both unique
\* fields, with other elements stored.
Reindex_Witness ==
    /\ last.op = "modify_by"
    /\ Returned
    /\ UniqueFields \subseteq last.reindexed
    /\ slab_len(store) = 2

\* The occupied slab keys whose element holds key in field f.
live_with(f, key) == {s \in slab_keys(store) : slab_get(store, s)[f] = key}

\* C11 (non-unique grouping): remove_by through a non-unique index with a key
\* that k stored elements hold returns exactly those k elements; afterwards
\* the key is absent from that lookup table, get_by returns an empty Vec,
\* and len() is smaller by k.
RemoveByGroup ==
    [][\A f \in NonUniqueFields : \A key \in KeysOf(f) :
          (Returned /\ RemoveBy(f, key)) =>
              /\ Returned'
              /\ remover_elems(self, f, key) = elems_at(self, live_with(f, key))
              /\ key \notin DOMAIN index'[f]
              /\ get_by(self_after, f, key) = <<>>
              /\ slab_len(store') = slab_len(store)
                                       - Cardinality(live_with(f, key))]_vars

\* get_by_<f>(key) of the container an operation leaves returns the element e.
GetsAfter(f, key, e) ==
    LET got == get_by(self_after, f, key) IN \E i \in 1..Len(got) : got[i] = e

\* C12 (remove frame): a remove_by through any index returns; get_by on any
\* field with a removed element's value of that field does not return that
\* element any more; every element left in the store is unchanged, and is
\* still returned by get_by with each of its keys if it was before.
RemoveFrame ==
    [][\A f \in FieldSet : \A key \in KeysOf(f) :
          (Returned /\ RemoveBy(f, key)) =>
              /\ Returned'
              /\ \A s \in slab_keys(store) \ slab_keys(store') :
                 \A g \in FieldSet :
                     ~GetsAfter(g, slab_get(store, s)[g], slab_get(store, s))
              /\ \A s \in slab_keys(store') :
                     /\ slab_contains(store, s)
                     /\ slab_get(store', s) = slab_get(store, s)
                     /\ \A g \in FieldSet :
                            Gets(g, slab_get(store, s)[g], slab_get(store, s))
                            => GetsAfter(g, slab_get(store, s)[g],
                                         slab_get(store, s))]_vars

\* C13 (clear): clear() returns and leaves len() = 0, is_empty(), no
\* occupied slab key, every lookup table empty and get_by returning nothing
\* for every key; an insert that follows a clear stores its element so that
\* get_by returns it on every indexed field.
ClearEmpties ==
    [][/\ last'.op = "clear" =>
              /\ Returned'
              /\ len(self_after) = 0
              /\ is_empty(self_after)
              /\ slab_keys(store') = {}
              /\ \A f \in FieldSet :
                     /\ DOMAIN index'[f] = {}
                     /\ \A key \in KeysOf(f) : get_by(self_after, f, key) = <<>>
       /\ \A elem \in Order :
              (last.op = "clear" /\ Returned /\ InsertElem(elem)) =>
                  /\ Returned'
                  /\ len(self_after) = 1
                  /\ \A f \in FieldSet :
                         get_by(self_after, f, elem[f]) = <<elem>>]_vars

\* A clear() of a container all of whose lookup tables held keys.
Clear_Witness ==
    /\ last.op = "clear"
    /\ last.reindexed = FieldSet
    /\ Returned

\* The panic a get_by_<f>(key) call on container c ends in ("none": it returns).
getter_panic(c, f, key) ==
    IF Uniqueness(f) = "Unique" THEN getter_Unique(c, f, key).panic
    ELSE getter_NonUnique(c, f, key).panic

\* C14 (not found): in every state, with a key absent from the lookup table
\* of the field, get_by returns None / an empty Vec without a panic!, and
\* remove_by and modify_by return None / an empty Vec, without a panic!,
\* leaving the store (so every element, the closure applied to none) and
\* every lookup table as they are.
NotFoundIsEmpty ==
    Returned =>
        \A f \in FieldSet : \A key \in KeysOf(f) \ DOMAIN index[f] :
            /\ getter_panic(self, f, key) = "none"
            /\ get_by(self, f, key) = <<>>
            /\ remove_by(self, f, key) = self
            /\ remover_elems(self, f, key) = <<>>
            /\ \A mut \in Mutators :
                   /\ modify_by(self, f, key, mut) = self
                   /\ modifier_refs(self, modify_by(self, f, key, mut), f, key)
                         = <<>>

\* A remove_by or modify_by returned nothing while elements are stored.
NotFound_Witness ==
    /\ last.op \in {"remove_by", "modify_by"}
    /\ Returned
    /\ last.len = 0
    /\ last.reindexed = {}
    /\ slab_len(store) = 2

\* The elements stored in the slab.
live == {slab_get(store, s) : s \in slab_keys(store)}

\* The elements of a sequence.
Range(seq) == {seq[i] : i \in 1..Len(seq)}

\* C15 (order fidelity): in every state left by operations that returned, a
\* loop over iter_by of an ordered unique index ends without a panic! having
\* yielded every stored element once, in strictly ascending order of the
\* field, and a loop over its .rev() yields them in strictly descending
\* order.
OrderFidelity ==
    Returned =>
        \A f \in {g \in UniqueFields : Ordering(g) = "Ordered"} :
        \A order \in IterOrders(self, f) :
            LET it == iter_by(self, f, order)
                fwd == collect(self, it, "next")
                bwd == collect(self, it, "next_back")
            IN /\ iterate(self, it, "next").panic = "none"
               /\ iterate(self, it, "next_back").panic = "none"
               /\ Range(fwd) = live /\ Len(fwd) = slab_len(store)
               /\ Range(bwd) = live /\ Len(bwd) = slab_len(store)
               /\ \A i, j \in 1..Len(fwd) : i < j => fwd[i][f] < fwd[j][f]
               /\ \A i, j \in 1..Len(bwd) : i < j => bwd[i][f] > bwd[j][f]

\* After a modify_by three elements are stored whose order by timestamp is
\* the reverse of their order by slab key.
OrderFidelity_Witness ==
    /\ Returned
    /\ last.op = "modify_by"
    /\ slab_len(store) = 3
    /\ \A s, t \in slab_keys(store) :
           s < t => slab_get(store, s).timestamp > slab_get(store, t).timestamp

\* The elements recorded under the keys of order in field f's lookup table:
\* key after key, those of one key in ascending order of slab key.
RECURSIVE groups_concat(_, _, _)
groups_concat(c, f, order) ==
    IF order = <<>> THEN <<>>
    ELSE elems_at(c, c.index[f][Head(order)])
             \o groups_concat(c, f, Tail(order))

\* C16 (two-level iteration): in every state left by operations that
\* returned, a loop over iter_by of a non-unique index ends without a panic!
\* and yields, for each key in the lookup table's order, all elements of that
\* key's set in ascending order of slab key before any element of the next
\* key; every stored element is yielded, once.
TwoLevelIteration ==
    Returned =>
        \A f \in NonUniqueFields : \A order \in IterOrders(self, f) :
            LET it == iter_by(self, f, order)
                fwd == collect(self, it, "next")
            IN /\ iterate(self, it, "next").panic = "none"
               /\ fwd = groups_concat(self, f, order)
               /\ Range(fwd) = live /\ Len(fwd) = slab_len(store)

\* The closures that assign every indexed field (examples/main.rs:68).
MultiFieldMutators == {mut \in Mutators : DOMAIN mut = FieldSet}

\* Applying mut to the elements at the slab keys targets gives no two stored
\* elements the same value of a unique field.
NoCollision(targets, mut) ==
    \A g \in UniqueFields \cap DOMAIN mut :
        /\ Cardinality(targets) <= 1
        /\ \A s \in slab_keys(store) \ targets : slab_get(store, s)[g] # mut[g]

\* C17 (multi-field modify): in every state left by operations that
\* returned, a modify_by through any index whose closure assigns all indexed
\* fields, to values no other stored element holds in a unique field,
\* returns; each element that held the key now holds the new values,
\* get_by returns it for the new value of each field that changed and not
\* for the old one, and remove_by with its new non-unique key would return
\* it together with the elements that held that key before.
MultiFieldReindex ==
    Returned =>
        \A f \in FieldSet : \A key \in KeysOf(f) :
        \A mut \in MultiFieldMutators :
            LET targets == live_with(f, key)
                after == modify_by(self, f, key, mut)
            IN (targets # {} /\ NoCollision(targets, mut)) =>
                  /\ after.panic = "none"
                  /\ \A s \in targets :
                        LET old == slab_get(store, s)
                            new == apply(mut, old)
                        IN /\ slab_get(after.store, s) = new
                           /\ \A g \in FieldSet :
                                 new[g] # old[g] =>
                                   /\ new \in Range(get_by(after, g, new[g]))
                                   /\ new \notin Range(get_by(after, g, old[g]))
                           /\ \A g \in NonUniqueFields :
                                 /\ remove_by(after, g, new[g]).panic = "none"
                                 /\ Range(remover_elems(after, g, new[g]))
                                       = {new} \cup {slab_get(store, t) :
                                             t \in live_with(g, new[g]) \ targets}

\* The closure applied to each element of a sequence.
apply_all(mut, elems) == [i \in 1..Len(elems) |-> apply(mut, elems[i])]

\* C18 (modify through a non-unique index): in every state left by
\* operations that returned (slab keys below or between those of the group
\* may be vacant), a modify_by through a non-unique index, its closure giving
\* no two stored elements the same value of a unique field, returns; the
\* closure has been applied to exactly the stored elements that held the key,
\* every other element is as it was, and the Vec returned holds exactly the
\* updated elements.
ModifyGroupExact ==
    Returned =>
        \A f \in NonUniqueFields : \A key \in KeysOf(f) : \A mut \in Mutators :
            LET targets == live_with(f, key)
                after == modify_by(self, f, key, mut)
            IN NoCollision(targets, mut) =>
                  /\ after.panic = "none"
                  /\ \A s \in slab_keys(store) :
                        slab_get(after.store, s) =
                            IF s \in targets THEN apply(mut, slab_get(store, s))
                            ELSE slab_get(store, s)
                  /\ modifier_refs(self, after, f, key)
                        = apply_all(mut, elems_at(self, targets))

\* C19 (get_mut_by through a non-unique index): in every state left by
\* operations that returned in which the invariants I1 to I4 hold (slab keys
\* below or between those of a group may be vacant), get_mut_by through a
\* non-unique index does not panic! and gives access to the same elements,
\* in the same order, as get_by with the same key.
GetMutAsGet ==
    (/\ Returned
     /\ I1_EverySlotOnceInEveryIndex
     /\ I2_UniqueKeysDistinct
     /\ I3_NoEmptySet
     /\ I4_NoDanglingIdx) =>
        \A f \in NonUniqueFields : \A key \in KeysOf(f) :
            /\ mut_getter_NonUnique(self, f, key).panic = "none"
            /\ get_mut_by(self, f, key) = get_by(self, f, key)

\* C20 (get_by through a non-unique index): in every state left by
\* operations that returned, get_by through a non-unique index does not
\* panic! and returns exactly the stored elements whose field equals the
\* key, in ascending order of slab key.
GetByGroup ==
    Returned =>
        \A f \in NonUniqueFields : \A key \in KeysOf(f) :
            /\ getter_panic(self, f, key) = "none"
            /\ get_by(self, f, key) = elems_at(self, live_with(f, key))

\* The indexed fields of element e, its non-indexed field left out.
indexed(e) == [f \in FieldSet |-> e[f]]

indexed_all(elems) == [i \in 1..Len(elems) |-> indexed(elems[i])]

CloneAnswersAsOriginal ==
    Returned =>
        \A new_map \in {clone(self)} :
            /\ len(new_map) = len(self)
            /\ \A f \in FieldSet : \A key \in KeysOf(f) :
                   /\ remover_elems(new_map, f, key) = remover_elems(self, f, key)
                   /\ remove_by(new_map, f, key).panic = remove_by(self, f, key).panic
                   /\ len(remove_by(new_map, f, key)) = len(remove_by(self, f, key))
            /\ \A s \in slab_keys(store) :
                   slab_keys(store) = {s} =>
                       /\ len(new_map) = 1
                       /\ \A f \in UniqueFields :
                          \A key \in {slab_get(store, s)[f]} :
                              /\ remove_by(new_map, f, key).panic = "none"
                              /\ remover_elems(new_map, f, key) = <<slab_get(store, s)>>
                              /\ len(remove_by(new_map, f, key)) = 0

\* One element has just been inserted into an empty container.
Clone_Witness ==
    /\ Returned
    /\ last.op = "insert"
    /\ slab_len(store) = 1

\* Field g's lookup table does not record slab key idx under the key the
\* element elem has in g: the key is missing, or it leads to other slab keys.
Disagrees(g, idx, elem) ==
    \/ elem[g] \notin DOMAIN index[g]
    \/ idx \notin idxs_at(g, elem[g])

\* C23 (removal from a table that disagrees with the store): when the first
\* element remove_by takes out of the store is not recorded, under its own
\* key and slab key, in the lookup table of some other field, the call ends
\* in the "Internal invariants broken" panic.
RemoveDetectsDisagreement ==
    Returned =>
        \A f \in FieldSet : \A key \in KeysOf(f) :
            \A idx \in lookup(self, f, key) :
                (/\ idx = Min(lookup(self, f, key))
                 /\ slab_contains(store, idx)
                 /\ \E g \in FieldSet \ {f} :
                        Disagrees(g, idx, slab_get(store, idx)))
                => remove_by(self, f, key).panic = "invariant"

\* The elements stored at the slab keys S are stored at the same keys of
\* container after, with the same indexed fields unless moved is TRUE, and
\* each lookup table of a unique field leads from the element's key to the
\* slab key it led to before.
SameSlots(after, S, moved) ==
    \A s \in S :
        /\ slab_contains(after.store, s)
        /\ moved \/ slab_get(after.store, s) = slab_get(store, s)
        /\ after.panic = "none" =>
               \A g \in UniqueFields :
                   lookup(self, g, slab_get(store, s)[g]) = {s} =>
                       lookup(after, g, slab_get(after.store, s)[g]) = {s}

\* C24 (slot id stability): insert stores at a slab key that holds no
\* element, and every element stored before is at its slab key afterwards;
\* remove_by leaves the elements it does not remove at their slab keys;
\* modify_by leaves every element at its slab key.
SlotIdStability ==
    Returned =>
        /\ store.next < MaxSlots =>
               \A elem \in Order : \A after \in {insert(self, elem)} :
                   /\ ~slab_contains(store, store.next)
                   /\ slab_keys(after.store) = slab_keys(store) \cup {store.next}
                   /\ slab_get(after.store, store.next) = elem
                   /\ SameSlots(after, slab_keys(store), FALSE)
        /\ \A f \in FieldSet : \A key \in KeysOf(f) :
           \A after \in {remove_by(self, f, key)} :
               after.panic = "none" =>
                   /\ slab_keys(after.store) \subseteq slab_keys(store)
                   /\ SameSlots(after, slab_keys(after.store), FALSE)
        /\ \A f \in FieldSet : \A key \in KeysOf(f) : \A mut \in Mutators :
           \A after \in {modify_by(self, f, key, mut)} :
               after.panic = "none" =>
                   /\ slab_keys(after.store) = slab_keys(store)
                   /\ SameSlots(after, slab_keys(store), TRUE)

\* An insert has reused a slab key that a removal had freed, while another
\* key is still vacant and two elements are stored.
SlotIdStability_Witness ==
    /\ Returned
    /\ last.op = "insert"
    /\ slab_len(store) = 2
    /\ Len(store.entries) = 3

\* The keys under which field g's lookup table of container c records the
\* slab key s.
keys_recording(c, g, s) ==
    {k \in DOMAIN c.index[g] : s \in lookup(c, g, k)}

\* C25 (modify frame): a modify_by call that returns leaves the lookup
\* table of every field unchanged whose value the closure leaves equal in
\* each element located, and leaves the entries of the elements it did not
\* locate unchanged in every lookup table.
ModifyFrame ==
    Returned =>
        \A f \in FieldSet : \A key \in KeysOf(f) : \A mut \in Mutators :
        \A after \in {modify_by(self, f, key, mut)} :
        \A targets \in {lookup(self, f, key) \cap slab_keys(store)} :
            after.panic = "none" =>
                /\ \A g \in FieldSet :
                       (\A s \in targets :
                            apply(mut, slab_get(store, s))[g] = slab_get(store, s)[g])
                       => after.index[g] = index[g]
                /\ \A g \in FieldSet : \A s \in slab_keys(store) \ targets :
                       keys_recording(after, g, s) = keys_recording(self, g, s)

\* The containers reserve(additional) and shrink_to_fit() may leave.
Resized == {shrink_to_fit(self)} \cup {reserve(self, n) : n \in 0..MaxSlots}

\* The orders in which field f's lookup table may iterate after reserve or
\* shrink_to_fit when it iterated in order before: those of its keys for a
\* BTreeMap, which neither call touches; any order for a HashMap, whose
\* reserve and shrink_to_fit may move every entry to another bucket.
OrdersAfterResize(after, f, order) ==
    IF Ordering(f) = "Ordered" THEN {order} ELSE IterOrders(after, f)

\* len(), the elements stored and their slab keys, the lookup tables and
\* every get_by result are the same in container after.
SameContent(after) ==
    /\ after.panic = "none"
    /\ len(after) = len(self)
    /\ slab_keys(after.store) = slab_keys(store)
    /\ \A s \in slab_keys(store) : slab_get(after.store, s) = slab_get(store, s)
    /\ after.index = index
    /\ \A g \in FieldSet : \A k \in KeysOf(g) :
           /\ get_by(after, g, k) = get_by(self, g, k)
           /\ getter_panic(after, g, k) = getter_panic(self, g, k)

\* C26 as claimed: reserve and shrink_to_fit leave the content unchanged and
\* every iter_by traversal yields the same sequence afterwards as before.
CapacityKeepsSequences ==
    Returned =>
        \A after \in Resized :
            /\ SameContent(after)
            /\ \A g \in FieldSet : \A order \in IterOrders(self, g) :
               \A order2 \in OrdersAfterResize(after, g, order) :
                   collect(after, iter_by(after, g, order2), "next")
                       = collect(self, iter_by(self, g, order), "next")

\* C26 (capacity calls keep the content), amended: reserve and shrink_to_fit
\* leave len(), the elements stored, their slab keys, the lookup tables and
\* every get_by result unchanged; iter_by over an ordered index yields the
\* same sequence as before and ends as before, iter_by over a hashed index
\* ends as before and, when it runs to its end, yields the same elements,
\* as many as before; an insert after reserve leaves what the insert
\* without it leaves.
CapacityKeepsContent ==
    Returned =>
        /\ \A after \in Resized :
            /\ SameContent(after)
            /\ \A g \in FieldSet : \A order \in IterOrders(self, g) :
               \A order2 \in OrdersAfterResize(after, g, order) :
               \A seq \in {collect(self, iter_by(self, g, order), "next")} :
               \A seq2 \in {collect(after, iter_by(after, g, order2), "next")} :
               \A end \in {iterate(self, iter_by(self, g, order), "next").panic} :
                   /\ Ordering(g) = "Ordered" => seq2 = seq
                   /\ iterate(after, iter_by(after, g, order2), "next").panic = end
                   /\ end = "none" => /\ Len(seq2) = Len(seq)
                                      /\ Range(seq2) = Range(seq)
        /\ store.next < MaxSlots =>
               \A n \in 0..MaxSlots : \A elem \in Order :
                   insert(reserve(self, n), elem) = insert(self, elem)

\* shrink_to_fit has dropped vacant entries off the end of the slab while
\* two elements are stored.
CapacityKeepsContent_Witness ==
    /\ Returned
    /\ last.op = "shrink_to_fit"
    /\ slab_len(store) = 2

\* fn iter(&self): slab::Iter over the store, the occupied entries in
\* ascending order of slab key.
iter(c) == elems_at(c, slab_keys(c.store))

\* C27 (completeness of index iteration): after operations that returned,
\* a loop over iter_by of any field runs to its end without a panic and
\* yields every element stored exactly once and nothing else; the number of
\* elements yielded is len() and the number iter() yields.
IterationComplete ==
    Returned =>
        \A g \in FieldSet : \A order \in IterOrders(self, g) :
        \A it \in {iter_by(self, g, order)} :
        \A seq \in {collect(self, it, "next")} :
            /\ iterate(self, it, "next").panic = "none"
            /\ Len(seq) = len(self)
            /\ Len(seq) = Len(iter(self))
            /\ Range(seq) = Range(iter(self))
            /\ \A i, j \in 1..Len(seq) : i # j => seq[i] # seq[j]

\* The fields whose lookup table is a BTreeMap of BTreeSets.
OrderedNonUniqueFields ==
    {f \in NonUniqueFields : Ordering(f) = "Ordered"}

\* C28 (reverse traversal of an ordered non-unique index): when a loop over
\* iter_by of such an index runs to its end, so does the loop over its
\* .rev(), and it yields the elements of the keys in descending order of
\* key, those of one key in descending order of slab key: the reverse of
\* the sequence the forward loop yields.
ReverseMirrorsForward ==
    Returned =>
        \A f \in OrderedNonUniqueFields : \A order \in IterOrders(self, f) :
        \A it \in {iter_by(self, f, order)} :
        \A fwd \in {collect(self, it, "next")} :
        \A bwd \in {collect(self, it, "next_back")} :
            /\ iterate(self, it, "next_back").panic = iterate(self, it, "next").panic
            /\ iterate(self, it, "next").panic = "none" =>
                   /\ bwd = Reverse(fwd)
                   /\ bwd = Reverse(groups_concat(self, f, ascending_keys(f, DOMAIN index[f])))

\* The ordered trader_name table holds two keys, one of them with two
\* elements, and records every element stored.
ReverseMirrorsForward_Witness ==
    /\ Returned
    /\ attr = "ordered_non_unique"
    /\ DOMAIN index["trader_name"] = {"John", "Tom"}
    /\ slab_len(store) = 3
    /\ UNION {index["trader_name"][k] : k \in DOMAIN index["trader_name"]}
           = slab_keys(store)
    /\ \A s \in slab_keys(store) :
           s \in index["trader_name"][slab_get(store, s).trader_name]

\* The results of the calls dirs (each "next" or "next_back") made one after
\* the other on iterator it; a panic ends them.
RECURSIVE iterator_drive(_, _, _)
iterator_drive(c, it, dirs) ==
    IF dirs = <<>> THEN <<>>
    ELSE LET r == iterator_call(c, it, Head(dirs)) IN
         IF r.panic # "none" THEN <<r>>
         ELSE <<r>> \o iterator_drive(c, r.it, Tail(dirs))

\* The sequences of at most MaxCalls calls of next() and next_back().
Interleavings ==
    UNION {[1..n -> {"next", "next_back"}] : n \in 0..MaxCalls}

\* C29 (double-ended consumption): whatever way next() and next_back() are
\* mixed on one iterator of an ordered index, no element is yielded by two
\* of the calls, and once the calls have yielded as many elements as are
\* stored every further call returns None.
DoubleEndedOnce ==
    Returned =>
        \A f \in {g \in FieldSet : Ordering(g) = "Ordered"} :
        \A order \in IterOrders(self, f) : \A dirs \in Interleavings :
        \A calls \in {iterator_drive(self, iter_by(self, f, order), dirs)} :
            /\ \A i, j \in 1..Len(calls) :
                   (i # j /\ calls[i].item # <<>>) => calls[j].item # calls[i].item
            /\ \A i \in 1..Len(calls) :
                   Cardinality({j \in 1..(i - 1) : calls[j].item # <<>>}) = len(self)
                   => calls[i].item = <<>>

\* C30 (key coherence): after operations that returned, every slab key a
\* lookup table records under key k holds an element whose value of that
\* table's field is k.
KeyCoherence ==
    Returned =>
        \A g \in FieldSet : \A k \in DOMAIN index[g] :
            \A s \in lookup(self, g, k) :
                /\ slab_contains(store, s)
                /\ slab_get(store, s)[g] = k

\* Container after answers len(), every get_by call and every loop over
\* iter_by (the lookup table iterating in the same order) as the current
\* container does.
SameAnswers(after) ==
    /\ len(after) = len(self)
    /\ \A g \in FieldSet : \A k \in KeysOf(g) :
           /\ getter_panic(after, g, k) = getter_panic(self, g, k)
           /\ get_by(after, g, k) = get_by(self, g, k)
    /\ \A g \in FieldSet :
           /\ IterOrders(after, g) = IterOrders(self, g)
           /\ \A order \in IterOrders(self, g) : \A dir \in Directions(g) :
                  /\ collect(after, iter_by(after, g, order), dir)
                         = collect(self, iter_by(self, g, order), dir)
                  /\ iterate(after, iter_by(after, g, order), dir).panic
                         = iterate(self, iter_by(self, g, order), dir).panic

\* C31 (insert then remove): from every state left by operations that
\* returned, when insert(r) returns, remove_by on a unique field with r's
\* key returns r, and len(), every get_by result and every iter_by sequence
\* are what they were before the insert.
InsertRemoveIdentity ==
    (Returned /\ store.next < MaxSlots) =>
        \A r \in Order : \A inserted \in {insert(self, r)} :
            inserted.panic = "none" =>
                \A f \in UniqueFields :
                \A after \in {remove_by(inserted, f, r[f])} :
                    /\ after.panic = "none"
                    /\ remover_elems(inserted, f, r[f]) = <<r>>
                    /\ SameAnswers(after)
====
